---- MODULE Spec2Model ----
(***************************************************************************)
(* i18n-adapt: the translation pipeline (processBatches, translateStrings, *)
(* generateTranslations) and the React resource merge (updateTranslations).*)
(*                                                                         *)
(* Text is modelled as a sequence of one-character strings.  The resource  *)
(* file is a sequence of tokens: the characters of string literals, the    *)
(* punctuation the regular expressions of updateTranslations look at, and  *)
(* a few multi-character chunks for text no expression looks into.         *)
(***************************************************************************)
EXTENDS Integers, Sequences, FiniteSets, TLC

VARIABLES
  pc,             \* position of the single thread of control
  run,            \* number of the current command-line run
  strings,        \* generateTranslations: analysis.strings
  stringsGiven,   \* FALSE when analysis.strings is undefined
  service,        \* generateTranslations: service
  framework,      \* generateTranslations: analysis.framework
  forceAll,       \* generateTranslations: forceAll
  language,       \* generateTranslations: language
  items,          \* processBatches: items
  batchSize,      \* processBatches: batchSize
  processFn,      \* processBatches: which function is passed as processFn
  i,              \* processBatches: loop index (0-based, as in the source)
  results,        \* processBatches: results
  inflight,       \* processFn calls started and not yet settled
  returned,       \* what processBatches handed back to its caller
  indexMap,       \* translateStrings: indexMap
  translations,   \* what translateStrings handed back to generateTranslations
  error,          \* the error that ended the run, "none" otherwise
  i18nFile,       \* the resource file on disk
  content,        \* updateTranslations: content
  updatedContent, \* updateTranslations: updatedContent
  backups,        \* backup files on disk, by timestamp
  log             \* events of the current run, in order

vars == <<pc, run, strings, stringsGiven, service, framework, forceAll,
          language, items,
          batchSize, processFn, i, results, inflight, returned, indexMap,
          translations, error, i18nFile, content, updatedContent, backups, log>>

(***************************************************************************)
(* Bounds of the model.                                                    *)
(***************************************************************************)
MaxItems == 4
MaxStrings == 2
MaxRuns == 2

(***************************************************************************)
(* Characters and strings.                                                 *)
(***************************************************************************)
Lowers == <<"a","b","c","d","e","f","g","h","i","j","k","l","m",
            "n","o","p","q","r","s","t","u","v","w","x","y","z">>
Uppers == <<"A","B","C","D","E","F","G","H","I","J","K","L","M",
            "N","O","P","Q","R","S","T","U","V","W","X","Y","Z">>
Digits == {"0","1","2","3","4","5","6","7","8","9"}

IsLower(c) == \E k \in 1..26 : Lowers[k] = c
IsUpper(c) == \E k \in 1..26 : Uppers[k] = c
IsAlnum(c) == IsLower(c) \/ IsUpper(c) \/ c \in Digits

ToLower(c) == IF IsUpper(c) THEN Lowers[CHOOSE k \in 1..26 : Uppers[k] = c] ELSE c
ToUpper(c) == IF IsLower(c) THEN Uppers[CHOOSE k \in 1..26 : Lowers[k] = c] ELSE c

Min(a, b) == IF a < b THEN a ELSE b

\* String.prototype.toLowerCase
toLowerCase(s) == [k \in 1..Len(s) |-> ToLower(s[k])]

\* String.prototype.includes
includes(s, sub) ==
  \E k \in 0..(Len(s) - Len(sub)) : SubSeq(s, k + 1, k + Len(sub)) = sub

\* String.prototype.substring(0, n)
substring(s, n) == SubSeq(s, 1, Min(n, Len(s)))

\* lodash words(): the maximal runs of letters and digits.  The phrases of
\* this model have no lower-to-upper change and no letter next to a digit
\* inside a run, the two other places where lodash breaks a word.
RECURSIVE WordsFrom(_, _, _, _)
WordsFrom(s, k, cur, acc) ==
  IF k > Len(s)
    THEN IF cur = <<>> THEN acc ELSE Append(acc, cur)
    ELSE IF IsAlnum(s[k])
           THEN WordsFrom(s, k + 1, Append(cur, s[k]), acc)
           ELSE WordsFrom(s, k + 1, <<>>,
                          IF cur = <<>> THEN acc ELSE Append(acc, cur))

words(s) == WordsFrom(s, 1, <<>>, <<>>)

\* lodash capitalize(): upperFirst(toLowerCase(word))
capitalize(w) ==
  IF w = <<>> THEN w
  ELSE <<ToUpper(ToLower(w[1]))>> \o toLowerCase(Tail(w))

RECURSIVE JoinCamel(_, _, _)
JoinCamel(ws, k, acc) ==
  IF k > Len(ws) THEN acc
  ELSE JoinCamel(ws, k + 1,
                 acc \o (IF k = 1 THEN toLowerCase(ws[k]) ELSE capitalize(ws[k])))

\* lodash camelCase()
camelCase(s) == JoinCamel(words(s), 1, <<>>)

(***************************************************************************)
(* The phrases of the model.                                               *)
(***************************************************************************)
PhOk == <<"O","k">>
PhSave == <<"S","a","v","e">>
PhSaveBang == <<"s","a","v","e","!">>
PhSubmitError == <<"S","u","b","m","i","t"," ","E","r","r","o","r">>
PhHome == <<"H","o","m","e">>
PhLoading == <<"L","o","a","d","i","n","g">>
PhOnly1 == <<"O","n","l","y"," ","$","1">>
PhCheap == <<"$","$"," ","C","h","e","a","p">>
PhLong == <<"W","e","l","c","o","m","e"," ","t","o"," ","o","u","r"," ",
            "s","i","t","e"," ","n","o","w"," ","a","n","d"," ",
            "e","n","j","o","y">>

PhraseList == <<PhOk, PhSave, PhSaveBang, PhSubmitError, PhHome, PhLoading,
                PhOnly1, PhCheap, PhLong>>

\* A list long enough for processBatches to need a second batch at the
\* default batch size: "aa", "ab", "ac", ...
ManyPhrases(n) == [k \in 1..n |-> <<"a", Lowers[k]>>]

(***************************************************************************)
(* processBatches                                                          *)
(***************************************************************************)
DefaultBatchSize == 15

\* Array.prototype.slice(i, i + batchSize), i 0-based
slice_InclusiveEnd(a, from, to) == SubSeq(a, from + 1, Min(to + 1, Len(a)))
slice(a, from, to) == SubSeq(a, from + 1, Min(to, Len(a)))

\* What the provider answers for one phrase when it answers well.
Translated(p) == <<"~">> \o p

TranslateAll(batch) == [k \in 1..Len(batch) |-> Translated(batch[k])]

\* A Google stub that hands the batch to the Gemini client instead of
\* throwing.
Answers_Fallback(fn, batch) ==
  { [kind |-> "aligned", value |-> [k \in 1..Len(batch) |-> <<"~">> \o batch[k]]] }

\* The answers processFn can resolve with for one batch: one result per item
\* in the order of the batch, one result too few, or one too many.  The
\* Google stub never resolves.
Answers(fn, batch) ==
  IF fn = "google" THEN {}
  ELSE { [kind |-> "aligned", value |-> TranslateAll(batch)],
         [kind |-> "short",
          value |-> SubSeq(TranslateAll(batch), 1, Len(batch) - 1)],
         [kind |-> "long",
          value |-> Append(TranslateAll(batch), Translated(<<"?">>))] }

\* The error processFn rejects with.
Rejection(fn) ==
  CASE fn = "gemini" -> "Gemini API error"
    [] fn = "google" -> "Google Translate backup not implemented"
    [] OTHER -> "processFn error"

\* `await processFn(batch)`: the loop is suspended until the call settles.
\* Without the await the loop would go on at once.
AfterCall_NoAwait == "pb_loop"
AfterCall == "pb_await"

\* Where processBatches returns to.
AfterBatches == IF processFn = "fn" THEN "done" ELSE "ts_regroup"

\* Loop test false: `return results`.
ProcessBatches_Return ==
  /\ pc = "pb_loop"
  /\ ~(i < Len(items))
  /\ returned' = [done |-> TRUE, value |-> results]
  /\ pc' = AfterBatches
  /\ log' = Append(log, "return")
  /\ UNCHANGED <<run, strings, stringsGiven, service, framework, forceAll,
                 language,
                 items, batchSize, processFn, i, results, inflight, indexMap,
                 translations, error, i18nFile, content, updatedContent,
                 backups>>

\* Loop test true: slice the batch and call processFn on it.
ProcessBatches_Call ==
  /\ pc = "pb_loop"
  /\ i < Len(items)
  /\ inflight' = inflight + 1
  /\ pc' = AfterCall
  /\ log' = Append(log, "call")
  /\ UNCHANGED <<run, strings, stringsGiven, service, framework, forceAll,
                 language,
                 items, batchSize, processFn, i, results, returned, indexMap,
                 translations, error, i18nFile, content, updatedContent,
                 backups>>

\* A loop that pauses after every batch, the last one included.
ProcessBatches_Resolve_AlwaysPause ==
  /\ pc = "pb_await"
  /\ \E a \in Answers(processFn, slice(items, i, i + batchSize)) :
       /\ results' = results \o a.value
       /\ log' = Append(log, a.kind)
  /\ inflight' = inflight - 1
  /\ pc' = "pb_delay" /\ i' = i
  /\ UNCHANGED <<run, strings, stringsGiven, service, framework, forceAll,
                 language,
                 items, batchSize, processFn, returned, indexMap,
                 translations, error, i18nFile, content, updatedContent,
                 backups>>

\* processFn resolved: push its results; pause if more items remain,
\* otherwise go round the loop.
ProcessBatches_Resolve ==
  /\ pc = "pb_await"
  /\ \E a \in Answers(processFn, slice(items, i, i + batchSize)) :
       /\ results' = results \o a.value
       /\ log' = Append(log, a.kind)
  /\ inflight' = inflight - 1
  /\ IF i + batchSize < Len(items)
       THEN pc' = "pb_delay" /\ i' = i
       ELSE pc' = "pb_loop" /\ i' = i + batchSize
  /\ UNCHANGED <<run, strings, stringsGiven, service, framework, forceAll,
                 language,
                 items, batchSize, processFn, returned, indexMap,
                 translations, error, i18nFile, content, updatedContent,
                 backups>>

\* A catch block that logs and does not rethrow.
ProcessBatches_Reject_Swallowed ==
  /\ pc = "pb_await"
  /\ inflight' = inflight - 1
  /\ i' = i + batchSize
  /\ pc' = "pb_loop"
  /\ log' = Append(log, "throw")
  /\ UNCHANGED <<run, strings, stringsGiven, service, framework, forceAll,
                 language, items, batchSize, processFn, results, returned,
                 indexMap, translations, error, i18nFile, content,
                 updatedContent, backups>>

\* processFn rejected: the catch block logs and rethrows.
ProcessBatches_Reject ==
  /\ pc = "pb_await"
  /\ inflight' = inflight - 1
  /\ error' = Rejection(processFn)
  /\ pc' = "failed"
  /\ log' = Append(log, "throw")
  /\ UNCHANGED <<run, strings, stringsGiven, service, framework, forceAll,
                 language,
                 items, batchSize, processFn, i, results, returned, indexMap,
                 translations, i18nFile, content, updatedContent, backups>>

\* The setTimeout of delayMs fired.
ProcessBatches_Delay ==
  /\ pc = "pb_delay"
  /\ i' = i + batchSize
  /\ pc' = "pb_loop"
  /\ log' = Append(log, "pause")
  /\ UNCHANGED <<run, strings, stringsGiven, service, framework, forceAll,
                 language,
                 items, batchSize, processFn, results, inflight, returned,
                 indexMap, translations, error, i18nFile, content,
                 updatedContent, backups>>

processBatches ==
  \/ ProcessBatches_Call
  \/ ProcessBatches_Resolve
  \/ ProcessBatches_Reject
  \/ ProcessBatches_Delay
  \/ ProcessBatches_Return

(***************************************************************************)
(* processBatches on its own: any item list, any batch size.               *)
(***************************************************************************)
ItemPool == {<<"x">>, <<"y">>}

RECURSIVE SeqsUpTo(_, _)
SeqsUpTo(S, n) ==
  IF n = 0 THEN {<<>>}
  ELSE LET shorter == SeqsUpTo(S, n - 1)
       IN  shorter \cup {Append(q, e) : q \in {r \in shorter : Len(r) = n - 1}, e \in S}

NoFile == [exists |-> FALSE, content |-> <<>>]

InitBatches ==
  /\ pc = "pb_loop"
  /\ run = 1
  /\ strings = <<>>
  /\ stringsGiven = TRUE
  /\ service = "none"
  /\ framework = "none"
  /\ forceAll = FALSE
  /\ language = "none"
  /\ items \in SeqsUpTo(ItemPool, MaxItems)
  /\ batchSize \in 1..(MaxItems + 1)
  /\ processFn = "fn"
  /\ i = 0
  /\ results = <<>>
  /\ inflight = 0
  /\ returned = [done |-> FALSE, value |-> <<>>]
  /\ indexMap = <<>>
  /\ translations = <<>>
  /\ error = "none"
  /\ i18nFile = NoFile
  /\ content = <<>>
  /\ updatedContent = <<>>
  /\ backups = <<>>
  /\ log = <<>>

SpecBatches == InitBatches /\ [][processBatches]_vars

(***************************************************************************)
(* JavaScript objects with string keys: a sequence of <<key, value>> pairs *)
(* in insertion order, each key once.  (Keys that look like array indices  *)
(* are ordered first by JavaScript; no key of this model is one.)          *)
(***************************************************************************)
Has(o, k) == \E n \in 1..Len(o) : o[n][1] = k
Get(o, k) == o[CHOOSE n \in 1..Len(o) : o[n][1] = k][2]
Put(o, k, v) ==
  IF Has(o, k)
    THEN [n \in 1..Len(o) |-> IF o[n][1] = k THEN <<k, v>> ELSE o[n]]
    ELSE Append(o, <<k, v>>)
Keys(o) == {o[n][1] : n \in 1..Len(o)}

\* { ...a, ...b }
RECURSIVE Spread(_, _)
Spread(a, b) ==
  IF b = <<>> THEN a ELSE Spread(Put(a, b[1][1], b[1][2]), Tail(b))

\* The (namespace, key, text) entries of a namespace -> key -> text object.
Entries(o) ==
  UNION { { <<o[a][1], o[a][2][b][1], o[a][2][b][2]>> : b \in 1..Len(o[a][2]) } :
          a \in 1..Len(o) }

(***************************************************************************)
(* translateStrings                                                        *)
(***************************************************************************)
ErrorWords == {<<"e","r","r","o","r">>, <<"f","a","i","l">>, <<"i","n","v","a","l","i","d">>}
NavigationWords == {<<"h","o","m","e">>, <<"a","b","o","u","t">>, <<"c","o","n","t","a","c","t">>}
FormsWords == {<<"s","u","b","m","i","t">>, <<"c","a","n","c","e","l">>, <<"s","a","v","e">>}
MessagesWords == {<<"l","o","a","d","i","n","g">>, <<"s","u","c","c","e","s","s">>, <<"w","a","r","n","i","n","g">>}

IncludesAny(s, ws) == \E w \in ws : includes(s, w)

\* The chain with the forms test moved to the front.
NamespaceOf_FormsFirst(str) ==
  LET lowerStr == toLowerCase(str)
  IN  IF IncludesAny(lowerStr, FormsWords) THEN "forms"
      ELSE IF IncludesAny(lowerStr, ErrorWords) THEN "errors"
      ELSE IF IncludesAny(lowerStr, NavigationWords) THEN "navigation"
      ELSE IF IncludesAny(lowerStr, MessagesWords) THEN "messages"
      ELSE IF Len(str) < 20 THEN "common"
      ELSE "components"

\* The if / else-if chain of the forEach over strings.
NamespaceOf(str) ==
  LET lowerStr == toLowerCase(str)
  IN  IF IncludesAny(lowerStr, ErrorWords) THEN "errors"
      ELSE IF IncludesAny(lowerStr, NavigationWords) THEN "navigation"
      ELSE IF IncludesAny(lowerStr, FormsWords) THEN "forms"
      ELSE IF IncludesAny(lowerStr, MessagesWords) THEN "messages"
      ELSE IF Len(str) < 20 THEN "common"
      ELSE "components"

\* Object.keys(namespaces): the order the object literal is written in.
NamespaceOrder ==
  <<"common", "navigation", "components", "messages", "forms", "errors">>

\* namespaces[ns] after the forEach: the strings of ns, in input order.
Bucket(strs, ns) ==
  LET InNs(str) == NamespaceOf(str) = ns
  IN  SelectSeq(strs, InNs)

RECURSIVE FlattenFrom(_, _)
FlattenFrom(strs, n) ==
  IF n > Len(NamespaceOrder) THEN <<>>
  ELSE Bucket(strs, NamespaceOrder[n]) \o FlattenFrom(strs, n + 1)

\* allStrings
Flatten(strs) == FlattenFrom(strs, 1)

\* indexMap, 1-based here
IndexMapOf(strs) ==
  LET all == Flatten(strs)
  IN  [n \in 1..Len(all) |-> [namespace |-> NamespaceOf(all[n]), original |-> all[n]]]

\* The key of one phrase.
KeyOf(original) == camelCase(substring(original, 30))

\* A regrouping that keeps the first translation written under a key.
RECURSIVE Regroup_FirstWins(_, _, _, _)
Regroup_FirstWins(trs, imap, n, obj) ==
  IF n > Len(trs) THEN obj
  ELSE LET ns    == <<imap[n].namespace>>
           inner == IF Has(obj, ns) THEN Get(obj, ns) ELSE <<>>
           key   == camelCase(substring(imap[n].original, 30))
       IN  Regroup_FirstWins(trs, imap, n + 1,
                             IF Has(inner, key) THEN obj
                             ELSE Put(obj, ns, Put(inner, key, trs[n])))

\* The forEach over translations that builds translatedObject.
RECURSIVE Regroup(_, _, _, _)
Regroup(trs, imap, n, obj) ==
  IF n > Len(trs) THEN obj
  ELSE LET ns    == <<imap[n].namespace>>
           inner == IF Has(obj, ns) THEN Get(obj, ns) ELSE <<>>
       IN  Regroup(trs, imap, n + 1,
                   Put(obj, ns, Put(inner, KeyOf(imap[n].original), trs[n])))

\* `!strings`: no array was handed in.
IsMissing == ~stringsGiven

\* `if (!strings || strings.length === 0) return {};`
IsEmptyInput_NoLengthTest == IsMissing
IsEmptyInput == IsMissing \/ Len(strings) = 0

\* translateStrings up to its first await: the empty-input return,
\* the grouping by namespace, the flattening and the choice of the service.
TranslateStrings_Begin ==
  /\ pc = "ts_begin"
  /\ IF IsEmptyInput
       THEN /\ translations' = <<>>
            /\ pc' = "gt_update"
            /\ log' = log \o <<"translateStrings", "mapping">>
            /\ UNCHANGED <<items, batchSize, processFn, i, results, indexMap,
                           error>>
       ELSE /\ indexMap' = IndexMapOf(strings)
            /\ IF service \in {"gemini", "google"}
                 THEN /\ items' = Flatten(strings)
                      /\ batchSize' = DefaultBatchSize
                      /\ processFn' = service
                      /\ i' = 0
                      /\ results' = <<>>
                      /\ pc' = "pb_loop"
                      /\ error' = error
                 ELSE /\ error' = "Unsupported translation service"
                      /\ pc' = "failed"
                      /\ UNCHANGED <<items, batchSize, processFn, i, results>>
            /\ log' = Append(log, "translateStrings")
            /\ UNCHANGED translations
  /\ UNCHANGED <<run, strings, stringsGiven, service, framework, forceAll,
                 language,
                 inflight, returned, i18nFile, content, updatedContent,
                 backups>>

\* translateStrings after processBatches returned: the regrouping.  Reading
\* indexMap[idx] for an idx past the last phrase gives undefined, and the
\* destructuring of undefined throws a TypeError.
TranslateStrings_Regroup ==
  /\ pc = "ts_regroup"
  /\ IF Len(returned.value) > Len(indexMap)
       THEN /\ error' = "TypeError"
            /\ pc' = "failed"
            /\ log' = Append(log, "TypeError")
            /\ UNCHANGED translations
       ELSE /\ translations' = Regroup(returned.value, indexMap, 1, <<>>)
            /\ pc' = "gt_update"
            /\ log' = Append(log, "mapping")
            /\ UNCHANGED error
  /\ UNCHANGED <<run, strings, stringsGiven, service, framework, forceAll,
                 language,
                 items, batchSize, processFn, i, results, inflight, returned,
                 indexMap, i18nFile, content, updatedContent, backups>>

translateStrings ==
  \/ TranslateStrings_Begin
  \/ TranslateStrings_Regroup
  \/ processBatches

(***************************************************************************)
(* The resource file as text.                                              *)
(***************************************************************************)
Languages == {"en", "es", "fr"}
TargetLanguages == {"es"}

\* `const <lang>Translations = ` as JSON.stringify's caller writes it, and
\* the same declaration typed without the blanks around `=`.
DeclCanon == [l \in Languages |->
  CASE l = "en" -> "const enTranslations = "
    [] l = "es" -> "const esTranslations = "
    [] OTHER    -> "const frTranslations = "]
DeclLoose == [l \in Languages |->
  CASE l = "en" -> "const enTranslations="
    [] l = "es" -> "const esTranslations="
    [] OTHER    -> "const frTranslations="]
ResOpen == [l \in Languages |->
  CASE l = "en" -> "en: {"
    [] l = "es" -> "es: {"
    [] OTHER    -> "fr: {"]
ResBody == [l \in Languages |->
  CASE l = "en" -> "translation: enTranslations"
    [] l = "es" -> "translation: esTranslations"
    [] OTHER    -> "translation: frTranslations"]

Quote == "\""

\* JSON.stringify of a string without quotes or backslashes in it
JsonString(str) == <<Quote>> \o str \o <<Quote>>

RECURSIVE JsonMembers(_, _, _)
JsonMembers(o, n, leaf) ==
  IF n > Len(o) THEN <<>>
  ELSE (IF n > 1 THEN <<",">> ELSE <<>>)
       \o JsonString(o[n][1]) \o <<":">>
       \o (IF leaf THEN JsonString(o[n][2])
           ELSE <<"{">> \o JsonMembers(o[n][2], 1, TRUE) \o <<"}">>)
       \o JsonMembers(o, n + 1, leaf)

\* JSON.stringify(translations, null, 2), white space left out
JSON_stringify(o) == <<"{">> \o JsonMembers(o, 1, FALSE) \o <<"}">>

(***************************************************************************)
(* Reading an object literal as JavaScript reads it.                       *)
(***************************************************************************)
Bad == [ok |-> FALSE, val |-> <<>>, next |-> 0]

At(t, k) == IF k >= 1 /\ k <= Len(t) THEN t[k] ELSE "<eof>"

\* The least element of a set of numbers, 0 for the empty set
Least(S) == IF S = {} THEN 0 ELSE CHOOSE x \in S : \A y \in S : x <= y

\* The first position of a token at or after k, or 0
IndexOf(t, tok, k) == Least({n \in k..Len(t) : t[n] = tok})

ClosingQuote(t, k) == IndexOf(t, Quote, k)

ReadString(t, k) ==
  IF At(t, k) # Quote THEN Bad
  ELSE LET j == ClosingQuote(t, k + 1)
       IN  IF j = 0 THEN Bad
           ELSE [ok |-> TRUE, val |-> SubSeq(t, k + 1, j - 1), next |-> j + 1]

RECURSIVE ReadMembers(_, _, _, _)
ReadObject(t, k, leaf) ==
  IF At(t, k) # "{" THEN Bad ELSE ReadMembers(t, k + 1, leaf, <<>>)

ReadMembers(t, k, leaf, acc) ==
  IF At(t, k) = "}" THEN [ok |-> TRUE, val |-> acc, next |-> k + 1]
  ELSE LET key == ReadString(t, k)
       IN  IF ~key.ok \/ At(t, key.next) # ":" THEN Bad
           ELSE LET v == IF leaf THEN ReadString(t, key.next + 1)
                         ELSE ReadObject(t, key.next + 1, TRUE)
                IN  IF ~v.ok THEN Bad
                    ELSE IF At(t, v.next) = ","
                           THEN ReadMembers(t, v.next + 1, leaf, Put(acc, key.val, v.val))
                    ELSE IF At(t, v.next) = "}"
                           THEN [ok |-> TRUE, val |-> Put(acc, key.val, v.val),
                                 next |-> v.next + 1]
                    ELSE Bad

\* `new Function('return ' + text)()` for a text that is an object literal
\* followed by `;`
Evaluate(text) ==
  LET r == ReadObject(text, 1, FALSE)
  IN  IF r.ok /\ r.next = Len(text) /\ At(text, r.next) = ";"
        THEN [ok |-> TRUE, val |-> r.val]
        ELSE [ok |-> FALSE, val |-> <<>>]

(***************************************************************************)
(* Regular expressions and String.prototype.replace.                       *)
(***************************************************************************)
NoMatch == [found |-> FALSE, from |-> 0, to |-> 0]

\* The least j >= k with `}` at j and `;` at j + 1, or 0: where the lazy
\* [\s\S]*?\}; stops.
FirstCloseSemi(t, k) ==
  Least({j \in k..(Len(t) - 1) : t[j] = "}" /\ t[j + 1] = ";"})

\* Leftmost match, at or after k, of a declaration whose head is in heads:
\* head `{` ... `};`
DeclMatchFrom(t, heads, k) ==
  LET from == Least({n \in k..Len(t) :
                       t[n] \in heads /\ At(t, n + 1) = "{" /\ FirstCloseSemi(t, n + 2) # 0})
  IN  IF from = 0 THEN NoMatch
      ELSE [found |-> TRUE, from |-> from, to |-> FirstCloseSemi(t, from + 2) + 1]

\* langRegex: const\s+<language>Translations\s*=\s*\{[\s\S]*?\};
langRegex(t, lang) == DeclMatchFrom(t, {DeclCanon[lang], DeclLoose[lang]}, 1)

\* The replacement patterns of String.prototype.replace: $$, $&, $`, $'
\* and $n for a group n of the expression; any other `$` stands for itself.
RECURSIVE Expand(_, _, _, _, _, _)
Expand(repl, k, matched, before, after, groups) ==
  LET d == IndexOf(repl, "$", k)
  IN  IF d = 0 THEN SubSeq(repl, k, Len(repl))
      ELSE LET c == At(repl, d + 1)
               isGroup == \E n \in 1..Len(groups) : c = ToString(n)
               put == IF c = "$" THEN <<"$">>
                      ELSE IF c = "&" THEN matched
                      ELSE IF c = "`" THEN before
                      ELSE IF c = "'" THEN after
                      ELSE IF isGroup
                        THEN groups[CHOOSE n \in 1..Len(groups) : c = ToString(n)]
                      ELSE <<"$">>
               used == IF c \in {"$", "&", "`", "'"} \/ isGroup THEN 2 ELSE 1
           IN  SubSeq(repl, k, d - 1) \o put
                 \o Expand(repl, d + used, matched, before, after, groups)

\* content.replace(regex, repl) for the match m with the groups given
replace(t, m, repl, groups) ==
  IF ~m.found THEN t
  ELSE LET before  == SubSeq(t, 1, m.from - 1)
           matched == SubSeq(t, m.from, m.to)
           after   == SubSeq(t, m.to + 1, Len(t))
       IN  before \o Expand(repl, 1, matched, before, after, groups) \o after

(***************************************************************************)
(* updateTranslations (React adapter)                                      *)
(***************************************************************************)
NoGroups == [found |-> FALSE, from |-> 0, to |-> 0, groups |-> <<>>]

\* /(const \w+Translations = {[\s\S]*?};)([\s\S]*?)(i18n)/ : the first
\* declaration written with single blanks that an "i18n" follows, up to
\* that "i18n".
AnchorMatch(t) ==
  LET heads == {DeclCanon[l] : l \in Languages}
      from  == Least({n \in 1..Len(t) :
                        /\ DeclMatchFrom(t, heads, n).found
                        /\ DeclMatchFrom(t, heads, n).from = n
                        /\ IndexOf(t, "i18n", DeclMatchFrom(t, heads, n).to + 1) # 0})
  IN  IF from = 0 THEN NoGroups
      ELSE LET d == DeclMatchFrom(t, heads, from)
               n == IndexOf(t, "i18n", d.to + 1)
           IN  [found |-> TRUE, from |-> d.from, to |-> n,
                groups |-> <<SubSeq(t, d.from, d.to),
                             SubSeq(t, d.to + 1, n - 1),
                             <<"i18n">>>>]

\* /(resources: {\s*.*?\s*en: {[\s\S]*?})(,?\s*)(})/ : from `resources: {`
\* `en: {` to the first `}` that an optional comma and a `}` follow.
ResourcesEnd(t, k) ==
  Least({j \in k..(Len(t) - 1) :
           t[j] = "}" /\ (t[j + 1] = "}" \/ (t[j + 1] = "," /\ At(t, j + 2) = "}"))})

ResourcesMatch(t) ==
  LET from == Least({n \in 1..Len(t) :
                       t[n] = "resources: {" /\ At(t, n + 1) = "en: {"
                         /\ ResourcesEnd(t, n + 2) # 0})
  IN  IF from = 0 THEN NoGroups
      ELSE LET j     == ResourcesEnd(t, from + 2)
               comma == IF t[j + 1] = "," THEN <<",">> ELSE <<>>
           IN  [found |-> TRUE, from |-> from, to |-> j + Len(comma) + 1,
                groups |-> <<SubSeq(t, from, j), comma, <<"}">>>>]

\* `const <language>Translations = <JSON>;`
Declaration(lang, obj) == <<DeclCanon[lang]>> \o JSON_stringify(obj) \o <<";">>

\* content.replace(langRegex, `const <language>Translations = <JSON>;`)
ReplaceDeclaration(t, lang, obj) ==
  replace(t, langRegex(t, lang), Declaration(lang, obj), <<>>)

\* existingMatch[0].replace(`const <language>Translations =`, ''), evaluated
ExistingTranslations(t, lang) ==
  LET m       == langRegex(t, lang)
      matched == SubSeq(t, m.from, m.to)
      text    == IF matched[1] = DeclCanon[lang] THEN Tail(matched) ELSE matched
  IN  Evaluate(text)

\* The "deep merge": a copy of the existing object in which every namespace
\* of translations is the spread of the old and the new namespace.
RECURSIVE Merge(_, _, _)
Merge(merged, trs, n) ==
  IF n > Len(trs) THEN merged
  ELSE LET ns  == trs[n][1]
           old == IF Has(merged, ns) THEN Get(merged, ns) ELSE <<>>
       IN  Merge(Put(merged, ns, Spread(Spread(<<>>, old), trs[n][2])), trs, n + 1)

\* An insertion whose replacement string leaves out `$1`, the declaration
\* the anchor expression matched.
AddLanguage_DropAnchor(t, lang, obj) ==
  LET a     == AnchorMatch(t)
      step1 == replace(t, a,
                       <<"// translations">> \o Declaration(lang, obj)
                         \o <<"$", "2", "$", "3">>,
                       a.groups)
      r     == ResourcesMatch(step1)
  IN  replace(step1, r,
              <<"$", "1", ",", ResOpen[lang], ResBody[lang], "}", "$", "3">>,
              r.groups)

\* The branch for a language the file has no declaration of.
AddLanguage(t, lang, obj) ==
  LET a     == AnchorMatch(t)
      step1 == replace(t, a,
                       <<"$", "1", "// translations">> \o Declaration(lang, obj)
                         \o <<"$", "2", "$", "3">>,
                       a.groups)
      r     == ResourcesMatch(step1)
  IN  replace(step1, r,
              <<"$", "1", ",", ResOpen[lang], ResBody[lang], "}", "$", "3">>,
              r.groups)

\* updatedContent
UpdatedContent(t, trs, lang, force) ==
  IF langRegex(t, lang).found
    THEN IF force
           THEN ReplaceDeclaration(t, lang, trs)
           ELSE LET existing == ExistingTranslations(t, lang)
                IN  IF existing.ok
                      THEN ReplaceDeclaration(t, lang, Merge(Spread(<<>>, existing.val), trs, 1))
                      ELSE ReplaceDeclaration(t, lang, trs)
    ELSE AddLanguage(t, lang, trs)

\* An existence test that lets a missing file through as an empty one.
UpdateTranslations_Exists_Creates ==
  /\ pc = "ut_exists"
  /\ pc' = "ut_read"
  /\ log' = Append(log, "updateTranslations")
  /\ UNCHANGED <<run, strings, stringsGiven, service, framework, forceAll,
                 language, items, batchSize, processFn, i, results, inflight,
                 returned, indexMap, translations, error, i18nFile, content,
                 updatedContent, backups>>

\* `if (!await fs.pathExists(i18nFile)) throw ...`
UpdateTranslations_Exists ==
  /\ pc = "ut_exists"
  /\ IF i18nFile.exists
       THEN pc' = "ut_read" /\ error' = error
       ELSE pc' = "failed" /\ error' = "i18n file not found"
  /\ log' = Append(log, "updateTranslations")
  /\ UNCHANGED <<run, strings, stringsGiven, service, framework, forceAll,
                 language, items, batchSize, processFn, i, results, inflight,
                 returned, indexMap, translations, i18nFile, content,
                 updatedContent, backups>>

\* readFile, then everything up to the next await: updatedContent is built.
UpdateTranslations_Read ==
  /\ pc = "ut_read"
  /\ content' = i18nFile.content
  /\ updatedContent' = UpdatedContent(i18nFile.content, translations, language, forceAll)
  /\ pc' = "ut_backup"
  /\ log' = log \o <<"loaded", "merged">>
  /\ UNCHANGED <<run, strings, stringsGiven, service, framework, forceAll,
                 language, items, batchSize, processFn, i, results, inflight,
                 returned, indexMap, translations, error, i18nFile, backups>>

\* What fs.copy copies: the file as it is on disk when the copy runs.  A copy
\* made after the write would hold the new content.
CopiedContent_AfterWrite == updatedContent
CopiedContent == i18nFile.content

\* `await fs.copy(i18nFile, backupPath)` succeeded.
UpdateTranslations_Backup ==
  /\ pc = "ut_backup"
  /\ backups' = Append(backups, CopiedContent)
  /\ pc' = "ut_write"
  /\ log' = Append(log, "backup")
  /\ UNCHANGED <<run, strings, stringsGiven, service, framework, forceAll,
                 language, items, batchSize, processFn, i, results, inflight,
                 returned, indexMap, translations, error, i18nFile, content,
                 updatedContent>>

\* A failed copy that is ignored: the run goes on to the write.
UpdateTranslations_BackupFails_Ignored ==
  /\ pc = "ut_backup"
  /\ pc' = "ut_write"
  /\ log' = Append(log, "backup failed")
  /\ UNCHANGED <<run, strings, stringsGiven, service, framework, forceAll,
                 language, items, batchSize, processFn, i, results, inflight,
                 returned, indexMap, translations, error, i18nFile, content,
                 updatedContent, backups>>

\* `await fs.copy(i18nFile, backupPath)` failed.
UpdateTranslations_BackupFails ==
  /\ pc = "ut_backup"
  /\ error' = "backup failed"
  /\ pc' = "failed"
  /\ log' = Append(log, "backup failed")
  /\ UNCHANGED <<run, strings, stringsGiven, service, framework, forceAll,
                 language, items, batchSize, processFn, i, results, inflight,
                 returned, indexMap, translations, i18nFile, content,
                 updatedContent, backups>>

\* `await fs.writeFile(i18nFile, updatedContent)` succeeded.
UpdateTranslations_Write ==
  /\ pc = "ut_write"
  /\ i18nFile' = [exists |-> TRUE, content |-> updatedContent]
  /\ pc' = "done"
  /\ log' = Append(log, "write")
  /\ UNCHANGED <<run, strings, stringsGiven, service, framework, forceAll,
                 language, items, batchSize, processFn, i, results, inflight,
                 returned, indexMap, translations, error, content,
                 updatedContent, backups>>

\* `await fs.writeFile(i18nFile, updatedContent)` failed: the file is as it
\* was, or was truncated when it was opened for writing.
UpdateTranslations_WriteFails ==
  /\ pc = "ut_write"
  /\ i18nFile' \in {i18nFile, [exists |-> TRUE, content |-> <<>>]}
  /\ error' = "write failed"
  /\ pc' = "failed"
  /\ log' = Append(log, "write failed")
  /\ UNCHANGED <<run, strings, stringsGiven, service, framework, forceAll,
                 language, items, batchSize, processFn, i, results, inflight,
                 returned, indexMap, translations, content, updatedContent,
                 backups>>

updateTranslations ==
  \/ UpdateTranslations_Exists
  \/ UpdateTranslations_Read
  \/ UpdateTranslations_Backup
  \/ UpdateTranslations_BackupFails
  \/ UpdateTranslations_Write
  \/ UpdateTranslations_WriteFails

(***************************************************************************)
(* generateTranslations                                                    *)
(***************************************************************************)
\* The switch on framework after translateStrings returned.  The Vue and
\* Angular adapters' updateTranslations only log and return true.
GenerateTranslations_Update ==
  /\ pc = "gt_update"
  /\ IF framework = "react"
       THEN pc' = "ut_exists" /\ error' = error
       ELSE IF framework \in {"vue", "angular"}
         THEN pc' = "done" /\ error' = error
         ELSE pc' = "failed" /\ error' = "Unsupported framework"
  /\ log' = Append(log, "switch")
  /\ UNCHANGED <<run, strings, stringsGiven, service, framework, forceAll,
                 language, items, batchSize, processFn, i, results, inflight,
                 returned, indexMap, translations, i18nFile, content,
                 updatedContent, backups>>

generateTranslations ==
  \/ translateStrings
  \/ GenerateTranslations_Update
  \/ updateTranslations

(***************************************************************************)
(* The command, run on a project, and run again.                           *)
(***************************************************************************)
\* The file `initialize` writes: the English declaration, then the i18n.init
\* call with its resources section.
EnglishBody == <<"{", "/* common, navigation */", "}", ";">>
InitCall == <<"i18n", "resources: {", "en: {", ResBody["en"], "}", "}", "/* options */">>
Template == <<"import", DeclCanon["en"]>> \o EnglishBody \o InitCall

\* Translations a project may already hold for a target language.
Existing ==
  << <<<<"common">>, << <<<<"o","k">>, <<"o","l","d">>>>, <<<<"a">>, <<"x">>>> >>>>,
     <<<<"legacy">>, << <<<<"z">>, <<"w">>>> >>>> >>

\* A project file typed by hand: no blanks around `=`.
HandWritten(lang) ==
  <<"import", DeclCanon["en"]>> \o EnglishBody
    \o <<DeclLoose[lang]>> \o JSON_stringify(Existing) \o <<";">>
    \o <<"i18n", "resources: {", "en: {", ResBody["en"], "}", ",",
         ResOpen[lang], ResBody[lang], "}", "}", "/* options */">>

LooseTemplate == <<"import", DeclLoose["en"]>> \o EnglishBody \o InitCall

ProjectFiles ==
  { NoFile,
    [exists |-> TRUE, content |-> Template],
    [exists |-> TRUE, content |-> LooseTemplate],
    [exists |-> TRUE, content |-> AddLanguage(Template, "es", Existing)],
    [exists |-> TRUE, content |-> AddLanguage(Template, "fr", Existing)],
    [exists |-> TRUE, content |-> HandWritten("es")] }

\* The phrase lists of the model: up to MaxStrings distinct phrases, taken
\* from PhraseList in its order or in the reverse order, and one list that
\* needs two batches.
IsAscending(q) == \A a \in 1..(Len(q) - 1) : q[a] < q[a + 1]
IsDescending(q) == \A a \in 1..(Len(q) - 1) : q[a] > q[a + 1]

StringLists ==
  { [n \in 1..Len(q) |-> PhraseList[q[n]]] :
      q \in {r \in SeqsUpTo(1..Len(PhraseList), MaxStrings) :
               IsAscending(r) \/ IsDescending(r)} }
    \cup {ManyPhrases(DefaultBatchSize + 1)}

Services == {"gemini", "google", "azure"}
Frameworks == {"react", "vue", "angular", "svelte"}

\* generateTranslations is called on a project.  Only the React adapter reads
\* forceAll and the resource file, so the other frameworks are run with one
\* value of each.
Init ==
  /\ pc = "ts_begin"
  /\ run = 1
  /\ strings \in StringLists
  /\ stringsGiven \in {TRUE} \cup (IF strings = <<>> THEN {FALSE} ELSE {})
  /\ service \in Services
  /\ framework \in Frameworks
  /\ forceAll \in BOOLEAN
  /\ language \in TargetLanguages
  /\ i18nFile \in ProjectFiles
  /\ (framework # "react" =>
        forceAll = FALSE /\ i18nFile = [exists |-> TRUE, content |-> Template])
  /\ items = <<>>
  /\ batchSize = DefaultBatchSize
  /\ processFn = "none"
  /\ i = 0
  /\ results = <<>>
  /\ inflight = 0
  /\ returned = [done |-> FALSE, value |-> <<>>]
  /\ indexMap = <<>>
  /\ translations = <<>>
  /\ error = "none"
  /\ content = <<>>
  /\ updatedContent = <<>>
  /\ backups = <<>>
  /\ log = <<>>

\* After a run that succeeded, the same command is run again on the project
\* as that run left it.
RunAgain ==
  /\ pc = "done"
  /\ run < MaxRuns
  /\ run' = run + 1
  /\ pc' = "ts_begin"
  /\ items' = <<>>
  /\ batchSize' = DefaultBatchSize
  /\ processFn' = "none"
  /\ i' = 0
  /\ results' = <<>>
  /\ inflight' = 0
  /\ returned' = [done |-> FALSE, value |-> <<>>]
  /\ indexMap' = <<>>
  /\ translations' = <<>>
  /\ error' = "none"
  /\ content' = <<>>
  /\ updatedContent' = <<>>
  /\ log' = <<>>
  /\ UNCHANGED <<strings, stringsGiven, service, framework, forceAll, language,
                 i18nFile, backups>>

Next ==
  \/ generateTranslations
  \/ RunAgain

Spec == Init /\ [][Next]_vars

(***************************************************************************)
(* Vocabulary of the properties.                                           *)
(***************************************************************************)
Logged(e) == \E n \in 1..Len(log) : log[n] = e
LastLogged == IF log = <<>> THEN "nothing" ELSE log[Len(log)]
Before(e, f) == \E a, b \in 1..Len(log) : a < b /\ log[a] = e /\ log[b] = f

\* Every batch call so far returned one result per item.
AllAligned == ~Logged("short") /\ ~Logged("long")

\* The number of processFn calls started so far.
CallCount == Cardinality({n \in 1..Len(log) : log[n] = "call"})

\* What the i18n library would load for a language: the object literal of the
\* language's declaration, read as JavaScript reads it.
LangContent(t, lang) ==
  LET k == Min(IF IndexOf(t, DeclCanon[lang], 1) = 0 THEN Len(t) + 1
               ELSE IndexOf(t, DeclCanon[lang], 1),
               IF IndexOf(t, DeclLoose[lang], 1) = 0 THEN Len(t) + 1
               ELSE IndexOf(t, DeclLoose[lang], 1))
      r == ReadObject(t, k + 1, FALSE)
  IN  IF k <= Len(t) /\ r.ok /\ At(t, r.next) = ";"
        THEN [ok |-> TRUE, val |-> r.val]
        ELSE [ok |-> FALSE, val |-> <<>>]

\* Two namespace -> key -> text objects with the same namespaces and entries.
SameContent(a, b) == Keys(a) = Keys(b) /\ Entries(a) = Entries(b)

\* The React updateTranslations of this run has written the file.
Persisted == pc = "done" /\ LastLogged = "write"

\* The target language had a declaration before this run's merge.
LanguageExisted == LangContent(content, language).ok
LanguageAbsent ==
  IndexOf(content, DeclCanon[language], 1) = 0
    /\ IndexOf(content, DeclLoose[language], 1) = 0

(***************************************************************************)
(* C1. processBatches returns the per-batch results concatenated in the    *)
(* order of the items: for a batch size between 1 and the number of items, *)
(* when every batch call returned one result per item, result n is the     *)
(* result of item n.                                                       *)
(***************************************************************************)
C1_OrderPreserved ==
  (returned.done /\ AllAligned /\ batchSize \in 1..Len(items))
    => (/\ Len(returned.value) = Len(items)
        /\ \A n \in 1..Len(items) : returned.value[n] = Translated(items[n]))

C1_Witness ==
  /\ returned.done /\ AllAligned
  /\ batchSize = 2 /\ Len(items) = 3
  /\ items[1] # items[2] /\ items[2] # items[3]
  /\ CallCount = 2

(***************************************************************************)
(* C2. When processFn fails on a batch, processBatches fails at once with  *)
(* that error: nothing happens after the failure (no further batch call,   *)
(* no pause), and no result list is returned.                              *)
(***************************************************************************)
C2_FailsImmediately ==
  \A n \in 1..Len(log) :
    (processFn = "fn" /\ log[n] = "throw")
      => (/\ n = Len(log)
          /\ pc = "failed"
          /\ error = Rejection(processFn)
          /\ ~returned.done)

C2_Witness ==
  /\ processFn = "fn" /\ LastLogged = "throw"
  /\ results # <<>>
  /\ i + batchSize < Len(items)

(***************************************************************************)
(* C3. In a translateStrings run at most one call of the translation       *)
(* client is in flight: between two calls the earlier one has settled.     *)
(***************************************************************************)
C3_OneInFlight ==
  processFn \in {"gemini", "google"}
    => (/\ inflight <= 1
        /\ \A a, b \in 1..Len(log) :
             (a < b /\ log[a] = "call" /\ log[b] = "call")
               => \E c \in (a + 1)..(b - 1) : log[c] \in {"aligned", "short", "long"})

C3_Witness ==
  processFn = "gemini" /\ inflight = 1 /\ CallCount = 2

(***************************************************************************)
(* C4. When the translation client returns a number of translations other  *)
(* than the number of phrases sent, translateStrings fails with an         *)
(* alignment error and returns no mapping.                                 *)
(***************************************************************************)
C4_AlignmentError ==
  (processFn = "gemini" /\ ~AllAligned /\ pc \notin {"pb_loop", "pb_await", "pb_delay", "ts_regroup"})
    => (~Logged("mapping") /\ error = "AlignmentError")

(***************************************************************************)
(* C5. translateStrings with an empty or missing phrase collection returns *)
(* the empty mapping and calls the provider not once, whatever the service.*)
(***************************************************************************)
C5_EmptyShortCircuit ==
  (IsMissing \/ strings = <<>>)
    => (/\ ~Logged("call") /\ inflight = 0
        /\ pc # "ts_begin" => (Logged("mapping") /\ translations = <<>>))

C5_Witness ==
  /\ strings = <<>> /\ stringsGiven
  /\ service = "azure"
  /\ Logged("mapping")

(***************************************************************************)
(* C6. Incremental policy, target language present: no existing            *)
(* (namespace, key) entry is dropped.  Keys absent from the new entries    *)
(* keep their text, keys of the new entries take the new text, namespaces  *)
(* absent from the new entries are untouched.                              *)
(***************************************************************************)
C6_IncrementalKeepsKeys ==
  (Persisted /\ ~forceAll /\ LanguageExisted)
    => LET old == LangContent(content, language).val
           new == LangContent(i18nFile.content, language)
       IN  /\ new.ok
           /\ \A e \in Entries(old) :
                (\A f \in Entries(translations) : <<f[1], f[2]>> # <<e[1], e[2]>>)
                  => e \in Entries(new.val)
           /\ Entries(translations) \subseteq Entries(new.val)
           /\ \A ns \in Keys(old) \ Keys(translations) :
                Has(new.val, ns) /\ Get(new.val, ns) = Get(old, ns)

(***************************************************************************)
(* C7. Force policy, target language present: after updateTranslations the *)
(* language's content is exactly the new entries.                          *)
(***************************************************************************)
C7_ForceReplaces ==
  (Persisted /\ forceAll /\ LanguageExisted)
    => LET new == LangContent(i18nFile.content, language)
       IN  new.ok /\ SameContent(new.val, translations)

(***************************************************************************)
(* C8. Target language absent from the resource: after a successful        *)
(* updateTranslations the language is present with exactly the new         *)
(* entries, under either policy.                                           *)
(***************************************************************************)
C8_InsertsNewLanguage ==
  (Persisted /\ LanguageAbsent)
    => LET new == LangContent(i18nFile.content, language)
       IN  new.ok /\ SameContent(new.val, translations)

(***************************************************************************)
(* C9. After a successful updateTranslations a backup exists that holds    *)
(* the resource file's content from before the merge, and it was made      *)
(* before the file was written.                                            *)
(***************************************************************************)
C9_BackupBeforeWrite ==
  Persisted
    => (/\ backups # <<>>
        /\ backups[Len(backups)] = content
        /\ Before("backup", "write")
        /\ ~Before("write", "backup"))

C9_Witness ==
  /\ Persisted
  /\ i18nFile.content # content
  /\ run = 2

(***************************************************************************)
(* C10. When the backup cannot be made, updateTranslations fails with that *)
(* error and the resource file keeps its content: nothing is written.      *)
(***************************************************************************)
C10_BackupFailureAborts ==
  Logged("backup failed")
    => (/\ pc = "failed"
        /\ error = "backup failed"
        /\ LastLogged = "backup failed"
        /\ i18nFile.content = content)

C10_Witness ==
  /\ Logged("backup failed")
  /\ updatedContent # content
  /\ pc = "failed"

(***************************************************************************)
(* C11. When translateStrings returns a mapping and every batch was        *)
(* answered with one translation per phrase, the mapping has one entry per *)
(* (namespace, key) pair that the phrases derive, and no other: phrases    *)
(* that derive the same key in the same namespace share one entry, which   *)
(* carries the translation of the last of them in the flattened order; a   *)
(* phrase that shares its pair with no other phrase has exactly one entry, *)
(* carrying its translation.                                               *)
(***************************************************************************)
Range(q) == {q[n] : n \in 1..Len(q)}

\* The (namespace, key) pairs translateStrings files the phrases of indexMap
\* under, in the flattened order.
RECURSIVE Slots(_)
Slots(imap) ==
  IF imap = <<>> THEN <<>>
  ELSE <<<<imap[1].namespace, KeyOf(imap[1].original)>>>> \o Slots(Tail(imap))

\* translateStrings has just returned a mapping built from aligned answers.
TranslationSucceeded == pc = "gt_update" /\ AllAligned

\* No namespace twice, no key twice inside a namespace.
KeysOnce(o) ==
  /\ \A a, b \in 1..Len(o) : a # b => o[a][1] # o[b][1]
  /\ \A a \in 1..Len(o) : \A b, c \in 1..Len(o[a][2]) :
        b # c => o[a][2][b][1] # o[a][2][c][1]

\* indexMap holds the phrases in the flattened order, slot[n] is the pair of
\* phrase n; phrase n is the last of its pair when no later phrase has it,
\* and alone when no other phrase has it.
C11_OneEntryPerSlot ==
  TranslationSucceeded
    => \A slot \in {Slots(indexMap)} : \A entries \in {Entries(translations)} :
         LET Original(n) == indexMap[n].original
             IsLast(n)   == \A m \in (n + 1)..Len(slot) : slot[m] # slot[n]
             Alone(n)    == \A m \in 1..Len(slot) : slot[m] = slot[n] => m = n
         IN  /\ KeysOnce(translations)
             /\ {Original(n) : n \in 1..Len(indexMap)} = Range(strings)
             /\ entries =
                  { <<<<slot[n][1]>>, slot[n][2], Translated(Original(n))>> :
                      n \in {k \in 1..Len(slot) : IsLast(k)} }
             /\ \A n \in 1..Len(slot) :
                  Alone(n)
                    => Cardinality({e \in entries : e[3] = Translated(Original(n))}) = 1

\* The statement without the exception: every phrase has its own entry.
C11_ExactlyOneEntry ==
  TranslationSucceeded
    => (/\ \A p \in Range(strings) :
             Cardinality({e \in Entries(translations) : e[3] = Translated(p)}) = 1
        /\ Cardinality(Entries(translations)) = Cardinality(Range(strings)))

C11_Witness ==
  /\ TranslationSucceeded
  /\ strings = <<PhSave, PhSaveBang>>
  /\ Cardinality(Entries(translations)) = 1

(***************************************************************************)
(* C12. A phrase is classified by its text alone, by the first rule of the *)
(* ordered list that applies to it: errors keywords, navigation keywords,  *)
(* forms keywords, messages keywords, fewer than 20 characters (common),   *)
(* otherwise components.  Whatever the other phrases of the list, the      *)
(* phrase is recorded once, under the namespace of that rule, and its      *)
(* translation is returned in that namespace and in no other.              *)
(***************************************************************************)
RuleNamespace ==
  <<"errors", "navigation", "forms", "messages", "common", "components">>

\* The phrase, already in lower case, has the word somewhere in it.
HasWord(low, w) ==
  \E k \in 0..(Len(low) - Len(w)) : \A j \in 1..Len(w) : low[k + j] = w[j]

RuleApplies(p, low, r) ==
  CASE r = 1 -> \E w \in ErrorWords : HasWord(low, w)
    [] r = 2 -> \E w \in NavigationWords : HasWord(low, w)
    [] r = 3 -> \E w \in FormsWords : HasWord(low, w)
    [] r = 4 -> \E w \in MessagesWords : HasWord(low, w)
    [] r = 5 -> Len(p) < 20
    [] OTHER -> TRUE

\* The number of the first rule that applies to the phrase.
FirstRule(p) ==
  Least(UNION { {r \in 1..6 : RuleApplies(p, low, r)} :
                low \in {SubSeq(toLowerCase(p), 1, Len(p))} })

\* The classification has just been done: processBatches is about to start.
Classified == pc = "pb_loop" /\ i = 0 /\ processFn \in {"gemini", "google"}

C12_FirstMatchWins ==
  /\ Classified =>
       (/\ \A p \in Range(strings) :
             Cardinality({n \in 1..Len(indexMap) : indexMap[n].original = p}) = 1
        /\ \A n \in 1..Len(indexMap) :
             indexMap[n].namespace = RuleNamespace[FirstRule(indexMap[n].original)])
  /\ TranslationSucceeded =>
       \A entries \in {Entries(translations)} : \A p \in Range(strings) :
         \A e \in {f \in entries : f[3] = Translated(p)} :
           e[1] = <<RuleNamespace[FirstRule(p)]>>

C12_Witness ==
  /\ TranslationSucceeded
  /\ strings = <<PhSubmitError, PhSave>>
  /\ Entries(translations) =
       { <<<<"errors">>, camelCase(PhSubmitError), Translated(PhSubmitError)>>,
         <<<<"forms">>, camelCase(PhSave), Translated(PhSave)>> }

(***************************************************************************)
(* C13. With at least one phrase to translate, a service other than        *)
(* 'gemini' makes translateStrings fail: 'google' with the error of the    *)
(* stub, thrown on the first batch, any other name with the unsupported-   *)
(* service error, thrown before any batch.  No batch is ever answered, no  *)
(* mapping is returned and the run goes no further than translateStrings.  *)
(* (With no phrase, translateStrings returns the empty mapping before it   *)
(* looks at the service.)                                                  *)
(***************************************************************************)
UnsupportedError ==
  IF service = "google" THEN Rejection("google")
  ELSE "Unsupported translation service"

C13_UnsupportedFails ==
  (service # "gemini" /\ ~IsEmptyInput)
    => (/\ pc \in {"ts_begin", "pb_loop", "pb_await", "failed"}
        /\ pc = "failed" => error = UnsupportedError
        /\ pc # "failed" => error = "none"
        /\ ~Logged("mapping") /\ translations = <<>>
        /\ ~Logged("aligned") /\ ~Logged("short") /\ ~Logged("long")
        /\ service # "google" => ~Logged("call"))

\* The statement for every input, the empty one included.
C13_UnsupportedAlwaysFails ==
  (service # "gemini" /\ pc # "ts_begin")
    => (/\ ~Logged("mapping")
        /\ pc \in {"pb_loop", "pb_await", "failed"}
        /\ pc = "failed" => error = UnsupportedError)

C13_Witness ==
  /\ service = "google" /\ strings # <<>>
  /\ pc = "failed" /\ error = Rejection("google")
  /\ Logged("call")

(***************************************************************************)
(* C14. A failure of translateStrings (a batch that threw, an unsupported  *)
(* service, the TypeError of the regrouping) ends generateTranslations     *)
(* with that error: the run takes no further step, so the framework switch *)
(* and updateTranslations are never reached.  No step of the translation   *)
(* touches the resource file or the backups, so both are as they were when *)
(* the run started.                                                        *)
(***************************************************************************)
InTranslation ==
  pc \in {"ts_begin", "pb_loop", "pb_await", "pb_delay", "ts_regroup"}

TranslationErrors ==
  {Rejection("gemini"), Rejection("google"),
   "Unsupported translation service", "TypeError"}

TranslationFailed == pc = "failed" /\ error \in TranslationErrors

C14_FailureLeavesResource ==
  [][ /\ InTranslation => (i18nFile' = i18nFile /\ backups' = backups)
      /\ (InTranslation /\ pc' = "failed") => TranslationFailed'
      /\ Logged("throw")' => TranslationFailed'
      /\ TranslationFailed' =>
           (/\ ~Logged("switch")' /\ ~Logged("updateTranslations")'
            /\ ~Logged("backup")' /\ ~Logged("write")'
            /\ ~Logged("mapping")'
            /\ translations' = <<>> /\ updatedContent' = <<>>)
      /\ ~TranslationFailed ]_vars

C14_Witness ==
  /\ TranslationFailed /\ error = Rejection("gemini")
  /\ run = 2 /\ Len(backups) = 1
  /\ results # <<>>

(***************************************************************************)
(* C15. One run of updateTranslations goes through Loaded, Merged,         *)
(* BackedUp, Persisted in that order, and when the existing content of the *)
(* target language cannot be parsed under the incremental policy the run   *)
(* ends in Failed: an error is surfaced, no backup is made and the file is *)
(* not rewritten.                                                          *)
(***************************************************************************)
\* The events of updateTranslations in the order the state machine gives.
InOrder(es) ==
  \A a, b \in 1..Len(es) :
    a < b => (Logged(es[b]) => Before(es[a], es[b])) /\ ~Before(es[b], es[a])

\* The file read by this run declares the target language, and what it
\* declares cannot be evaluated.
ParseFailed ==
  /\ Logged("loaded") /\ ~forceAll
  /\ langRegex(content, language).found
  /\ ~ExistingTranslations(content, language).ok

C15_StateMachine ==
  /\ InOrder(<<"loaded", "merged", "backup", "write">>)
  /\ ParseFailed =>
       (/\ pc = "failed" /\ error # "none"
        /\ ~Logged("merged") /\ ~Logged("backup") /\ ~Logged("write")
        /\ i18nFile.content = content)

(***************************************************************************)
(* C16. processBatches pauses once between two consecutive batches and not *)
(* after the last: every pause comes directly after a batch that was       *)
(* answered and directly before the next call, every call but the first    *)
(* comes directly after a pause, and when processBatches returns for n > 0 *)
(* items and batch size B it has made ceil(n/B) calls and ceil(n/B) - 1    *)
(* pauses (no call and no pause for n = 0).                                *)
(***************************************************************************)
Count(e) == Cardinality({n \in 1..Len(log) : log[n] = e})

Ceil(n, b) == (n + b - 1) \div b

Answered(e) == e \in {"aligned", "short", "long"}

C16_PausesBetweenBatches ==
  /\ \A n \in 1..Len(log) :
       /\ log[n] = "pause" =>
            (/\ n > 1 /\ Answered(log[n - 1])
             /\ n < Len(log) => log[n + 1] = "call")
       /\ (log[n] = "call" /\ n > 1) => log[n - 1] = "pause"
  /\ returned.done =>
       (/\ Count("call") = Ceil(Len(items), batchSize)
        /\ Count("pause") = IF items = <<>> THEN 0 ELSE Ceil(Len(items), batchSize) - 1)

C16_Witness ==
  /\ returned.done
  /\ Len(items) = 4 /\ batchSize = 3
  /\ Count("call") = 2 /\ Count("pause") = 1

(***************************************************************************)
(* C17. The merge is idempotent: when updateTranslations has run twice in  *)
(* a row on the file with the same new entries, target language and        *)
(* policy, the target language's content after the second run is its       *)
(* content after the first run.                                            *)
(***************************************************************************)
\* This run wrote the file, the run before it wrote the file too, and what
\* that run wrote is what this run's entries make of the file it read.
SecondApplication ==
  /\ Persisted /\ run >= 2 /\ Len(backups) >= 2
  /\ content = UpdatedContent(backups[Len(backups) - 1], translations,
                              language, forceAll)

C17_MergeIdempotent ==
  SecondApplication
    => LET first  == LangContent(content, language)
           second == LangContent(i18nFile.content, language)
       IN  /\ first.ok = second.ok
           /\ SameContent(first.val, second.val)

(***************************************************************************)
(* C18. generateTranslations looks for the resource file only after        *)
(* translateStrings has returned.  With the React adapter and no resource  *)
(* file, the run ends with the not-found error after the mapping was built *)
(* and every batch of the phrases was sent; the run stops there, so the    *)
(* mapping is not returned, and no resource file and no backup exist.      *)
(***************************************************************************)
FileMissing == framework = "react" /\ ~i18nFile.exists

NotFound == error = "i18n file not found"

DeclText(t, lang) ==
  LET m == langRegex(t, lang)
  IN  IF m.found THEN SubSeq(t, m.from, m.to) ELSE <<>>

\* How many times the resources section names a language.
ResourceEntries(t, lang) == Cardinality({n \in 1..Len(t) : t[n] = ResOpen[lang]})

====
